---- MODULE Spec2Model ----
(***************************************************************************)
(* Model of the Novel-Writer store (src/src/store/useProjectStore.ts) and  *)
(* of the EditorView component that drives it                              *)
(* (src/src/components/EditorView.tsx).                                    *)
(*                                                                         *)
(* One JavaScript task (an event handler up to its first await, or the     *)
(* continuation of an await) is one action.  A Firestore write that has    *)
(* been issued and not yet settled is an entry of `inflight`; it settles   *)
(* by WriteSucceeds or WriteFails, in any order.                           *)
(***************************************************************************)
EXTENDS Integers, Sequences, FiniteSets, TLC

\* ------------------------------------------------------------------ bounds
MaxClock    == 3
MaxScenes   == 2
MaxSessions == 2
MaxInflight == 2
MaxWrites   == 4

\* --------------------------------------------------------------- constants
NoScene   == 0
NoProject == "none"
ProjectIds == {"P", "Q"}

\* Content is markup, modelled as a sequence of tokens: tags, letters, blanks.
Tags == {"<p>", "</p>"}
Blank == " "
EmptyContent == << >>
ParaOne   == <<"<p>", "a", "</p>">>
ParaTwo   == <<"<p>", "a", " ", "b", "</p>">>
\* what the rich-text editor can report through onChange (getHTML())
EditorTexts == {ParaOne, ParaTwo}

FirstTitle == "Chapter 1"
NewTitles  == {"Scene"}
RenameTitles == {" "}

\* ------------------------------------------------------------- countWords
RECURSIVE StripTags(_)
StripTags(s) ==
    IF Len(s) = 0 THEN << >>
    ELSE IF Head(s) \in Tags THEN StripTags(Tail(s))
         ELSE <<Head(s)>> \o StripTags(Tail(s))

RECURSIVE TrimLeft(_)
TrimLeft(s) ==
    IF Len(s) > 0 /\ Head(s) = Blank THEN TrimLeft(Tail(s)) ELSE s

RECURSIVE TrimRight(_)
TrimRight(s) ==
    IF Len(s) > 0 /\ s[Len(s)] = Blank THEN TrimRight(SubSeq(s, 1, Len(s) - 1)) ELSE s

Trim(s) == TrimRight(TrimLeft(s))

\* number of pieces of text.split(/\s+/) for a trimmed, non-empty text
RECURSIVE SplitCount(_)
SplitCount(s) ==
    IF Len(s) = 0 THEN 1
    ELSE IF Head(s) = Blank THEN 1 + SplitCount(TrimLeft(s))
         ELSE SplitCount(Tail(s))

countWords(htmlContent) ==
    IF Len(htmlContent) = 0 THEN 0
    ELSE LET text == StripTags(htmlContent)
         IN  IF Len(Trim(text)) = 0 THEN 0 ELSE SplitCount(Trim(text))

\* ------------------------------------------------------------------ state
VARIABLES
    now,               \* Date.now()
    db,                \* the persisted project documents
    cur,               \* store.currentProject
    activeSceneId,     \* store.activeSceneId
    editorContent,     \* store.editorContent
    saveStatus,        \* store.saveStatus
    isWriting,         \* EditorView state
    sessionTime,       \* EditorView state: the displayed counter
    sessionStartTime,  \* EditorView state (0 = null)
    initialWordCount,  \* EditorView state
    armed,             \* the auto-save effect's timer is pending
    inflight,          \* writes awaiting their completion, in issue order
    issued,            \* how many writes the handlers have asked for so far
    typedInSession,    \* history: the editor holds text typed since the session began
    debounced,         \* the arguments of the pending debouncedUpdateSceneContent call
    idleTimers         \* pending 2-second timers that turn 'saved' into 'idle'

vars == <<now, db, cur, activeSceneId, editorContent, saveStatus, isWriting,
          sessionTime, sessionStartTime, initialWordCount, armed, inflight, issued, typedInSession,
          debounced, idleTimers>>

store == <<cur, activeSceneId, editorContent, saveStatus>>
view  == <<isWriting, sessionTime, sessionStartTime, initialWordCount>>
timers == <<debounced, idleTimers>>

\* ---------------------------------------------------------------- helpers
RECURSIVE SumWordCount(_)
SumWordCount(scenes) ==
    IF Len(scenes) = 0 THEN 0
    ELSE Head(scenes).wordCount + SumWordCount(Tail(scenes))

RECURSIVE SumDuration(_)
SumDuration(sessions) ==
    IF Len(sessions) = 0 THEN 0
    ELSE Head(sessions).duration + SumDuration(Tail(sessions))

\* scenes.findIndex(s => s.id === sceneId), 0 standing for -1
SceneIndex(scenes, sceneId) ==
    IF \E i \in 1..Len(scenes) : scenes[i].id = sceneId
    THEN CHOOSE i \in 1..Len(scenes) :
            /\ scenes[i].id = sceneId
            /\ \A j \in 1..(i - 1) : scenes[j].id # sceneId
    ELSE 0

RemoveAt(s, i) == SubSeq(s, 1, i - 1) \o SubSeq(s, i + 1, Len(s))
InsertAt(s, i, e) == SubSeq(s, 1, i - 1) \o <<e>> \o SubSeq(s, i, Len(s))

RECURSIVE FilterOut(_, _)
FilterOut(scenes, sceneId) ==
    IF Len(scenes) = 0 THEN << >>
    ELSE IF Head(scenes).id = sceneId THEN FilterOut(Tail(scenes), sceneId)
         ELSE <<Head(scenes)>> \o FilterOut(Tail(scenes), sceneId)

NewScene(id, title) ==
    [id |-> id, title |-> title, content |-> EmptyContent, wordCount |-> 0]

ClosedProject ==
    [id |-> NoProject, scenes |-> << >>, sessions |-> << >>,
     totalTime |-> 0, totalWords |-> 0]

NoDoc == [st |-> "none", scenes |-> << >>, sessions |-> << >>,
          totalTime |-> 0, totalWords |-> 0]

\* the document createProject writes: one empty scene
FreshDoc == [NoDoc EXCEPT !.st = "live", !.scenes = <<NewScene(1, FirstTitle)>>]

IsOpen == cur.id # NoProject

\* the entry of the projects list that the snapshot listener built from a document
ProjectOf(p) ==
    [id |-> p, scenes |-> db[p].scenes, sessions |-> db[p].sessions,
     totalTime |-> db[p].totalTime, totalWords |-> db[p].totalWords]

\* the auto-save effect: a timer is set unless there is no active scene or a
\* session is being written
ArmWhileWriting(active, writing) == active # NoScene

Arm(active, writing) == active # NoScene /\ ~writing

\* a write awaiting completion, with what its continuation captured
Op(kind, pid, scenes, totalWords, sessions, totalTime, orig, cont, sceneId, content, duration, initial) ==
    [kind |-> kind, pid |-> pid, scenes |-> scenes, totalWords |-> totalWords,
     sessions |-> sessions, totalTime |-> totalTime, orig |-> orig,
     cont |-> cont, sceneId |-> sceneId, content |-> content,
     duration |-> duration, initial |-> initial, mounted |-> TRUE]

\* the bounds of the model on the writes a handler may still ask for
CanIssue(n) == Len(inflight) < MaxInflight /\ issued + n <= MaxWrites

SceneOp(kind, pid, scenes, totalWords, orig) ==
    Op(kind, pid, scenes, totalWords, << >>, 0, orig, "none", NoScene, EmptyContent, 0, 0)

\* debounce: no call is waiting for its delay
NoPending == [sceneId |-> NoScene, content |-> EmptyContent]

\* ------------------------------------------------------------------- Init
Init ==
    /\ now = 2
    /\ db = [p \in ProjectIds |-> IF p = "P" THEN FreshDoc ELSE NoDoc]
    /\ cur = ClosedProject
    /\ activeSceneId = NoScene
    /\ editorContent = EmptyContent
    /\ saveStatus = "idle"
    /\ isWriting = FALSE
    /\ sessionTime = 0
    /\ sessionStartTime = 0
    /\ initialWordCount = 0
    /\ armed = FALSE
    /\ inflight = << >>
    /\ issued = 0
    /\ typedInSession = FALSE
    /\ debounced = NoPending
    /\ idleTimers = 0


\* ------------------------------------------------------ store operations
\* setActiveSceneId(sceneId) on the project `project`: <<activeSceneId, editorContent>>
setActiveSceneId(project, sceneId) ==
    IF project.id # NoProject /\ sceneId # NoScene
    THEN LET i == SceneIndex(project.scenes, sceneId)
         IN  <<sceneId, IF i = 0 THEN EmptyContent ELSE project.scenes[i].content>>
    ELSE <<NoScene, EmptyContent>>

\* the scene list updateSceneContent builds (the scene is known to be present)
UpdatedScenesKeepCount(scenes, sceneId, content) ==
    [scenes EXCEPT ![SceneIndex(scenes, sceneId)].content = content]

UpdatedScenes(scenes, sceneId, content) ==
    [scenes EXCEPT ![SceneIndex(scenes, sceneId)] =
        [@ EXCEPT !.content = content, !.wordCount = countWords(content)]]

\* the reduce of updateSceneContent and deleteScene
TotalWordsOf(scenes) == SumWordCount(scenes)

\* addSession's new session and project fields
NewSessionNoSnapshot(duration, wordsWritten, sceneId, content) ==
    [duration |-> duration, wordsWritten |-> wordsWritten,
     sceneId |-> sceneId, content |-> EmptyContent]

NewSession(duration, wordsWritten, sceneId, content) ==
    [duration |-> duration, wordsWritten |-> wordsWritten,
     sceneId |-> sceneId, content |-> content]

\* handleEndSession: const wordsWritten = finalWordCount - initialWordCount
WordsWritten(finalWordCount, initial) == finalWordCount - initial

\* handleEndSession: const duration = sessionTime
Duration == sessionTime

\* addSession: const updatedSessions = [...currentProject.sessions, newSession]
UpdatedSessionsPrepend(sessions, newSession) == <<newSession>> \o sessions

UpdatedSessionsReplace(sessions, newSession) == <<newSession>>

UpdatedSessions(sessions, newSession) == Append(sessions, newSession)

\* addSession: const updatedTime = currentProject.totalTime + sessionData.duration
UpdatedTimeLast(totalTime, duration) == duration

UpdatedTime(totalTime, duration) == totalTime + duration

\* the synchronous part of addSession on the open project, called by the
\* continuation of handleEndSession; `rest` is what else is in flight
AddSessionCall(rest, duration, wordsWritten, sceneId, content, mounted) ==
    LET updatedSessions == UpdatedSessions(cur.sessions,
                               NewSession(duration, wordsWritten, sceneId, content))
        updatedTime == UpdatedTime(cur.totalTime, duration)
        op == [Op("addSession", cur.id, << >>, 0, updatedSessions, updatedTime,
                  << >>, "end", sceneId, content, duration, 0)
               EXCEPT !.mounted = mounted]
    IN  /\ cur' = [cur EXCEPT !.sessions = updatedSessions, !.totalTime = updatedTime]
        /\ saveStatus' = "saving"
        /\ inflight' = Append(rest, op)

\* ------------------------------------------------------------- the clock
AdvanceClock ==
    /\ now < MaxClock
    /\ now' = now + 1
    /\ UNCHANGED <<db, store, view, armed, inflight, issued>>
    /\ UNCHANGED typedInSession
    /\ UNCHANGED timers

\* Session Timer effect: the 1-second interval while isWriting
TimerTick ==
    /\ IsOpen /\ isWriting
    /\ sessionTime' = now - (IF sessionStartTime # 0 THEN sessionStartTime ELSE now)
    /\ sessionTime' # sessionTime
    /\ UNCHANGED <<now, db, store, isWriting, sessionStartTime, initialWordCount, armed, inflight, issued>>
    /\ UNCHANGED typedInSession
    /\ UNCHANGED timers

\* ---------------------------------------------------------- the dashboard
\* createProject(name): addDoc of a project with one scene
CreateProject(p) ==
    /\ ~IsOpen
    /\ db[p].st = "none"
    /\ \A i \in 1..Len(inflight) : ~(inflight[i].kind = "createProject" /\ inflight[i].pid = p)
    /\ CanIssue(1)
    /\ saveStatus' = "saving"
    /\ issued' = issued + 1
    /\ inflight' = Append(inflight,
          SceneOp("createProject", p, <<NewScene(now, FirstTitle)>>, 0, << >>))
    /\ UNCHANGED <<now, db, cur, activeSceneId, editorContent, view, armed>>
    /\ UNCHANGED typedInSession
    /\ UNCHANGED timers

\* deleteProject(projectId), from the dashboard's confirmation modal
DeleteProject(p) ==
    /\ ~IsOpen
    /\ db[p].st = "live"
    /\ CanIssue(1)
    /\ saveStatus' = "saving"
    /\ issued' = issued + 1
    /\ inflight' = Append(inflight, SceneOp("deleteProject", p, << >>, 0, << >>))
    /\ UNCHANGED <<now, db, cur, activeSceneId, editorContent, view, armed>>
    /\ UNCHANGED typedInSession
    /\ UNCHANGED timers

\* the Open button: setCurrentProject(project); EditorView mounts
OpenProject(p) ==
    /\ ~IsOpen
    /\ db[p].st = "live"
    /\ cur' = ProjectOf(p)
    /\ LET a == setActiveSceneId(cur',
                   IF Len(cur'.scenes) > 0 THEN cur'.scenes[1].id ELSE NoScene)
       IN  /\ activeSceneId' = a[1]
           /\ editorContent' = a[2]
           /\ armed' = Arm(a[1], FALSE)
    /\ isWriting' = FALSE
    /\ sessionTime' = 0
    /\ sessionStartTime' = 0
    /\ initialWordCount' = 0
    /\ UNCHANGED <<now, db, saveStatus, inflight, issued>>
    /\ typedInSession' = FALSE
    /\ UNCHANGED timers

\* the Back button: setCurrentProject(null); EditorView unmounts
Back ==
    /\ IsOpen
    /\ cur' = ClosedProject
    /\ activeSceneId' = NoScene
    /\ editorContent' = EmptyContent
    /\ armed' = FALSE
    /\ isWriting' = FALSE
    /\ sessionTime' = 0
    /\ sessionStartTime' = 0
    /\ initialWordCount' = 0
    /\ inflight' = [i \in 1..Len(inflight) |-> [inflight[i] EXCEPT !.mounted = FALSE]]
    /\ UNCHANGED issued
    /\ UNCHANGED <<now, db, saveStatus>>

    /\ typedInSession' = FALSE
    /\ UNCHANGED timers

\* -------------------------------------------------------------- the editor
\* TiptapEditor onChange: setEditorContent(content)
Type(c) ==
    /\ IsOpen
    /\ activeSceneId # NoScene
    /\ c # editorContent
    /\ editorContent' = c
    /\ armed' = Arm(activeSceneId, isWriting)
    /\ UNCHANGED <<now, db, cur, activeSceneId, saveStatus, view, inflight, issued>>
    /\ typedInSession' = isWriting
    /\ UNCHANGED timers

\* a click on a scene of the list: setActiveSceneId(scene.id)
ClickScene(i) ==
    /\ IsOpen
    /\ i \in 1..Len(cur.scenes)
    /\ LET a == setActiveSceneId(cur, cur.scenes[i].id)
       IN  /\ a # <<activeSceneId, editorContent>>
           /\ activeSceneId' = a[1]
           /\ editorContent' = a[2]
           /\ armed' = Arm(a[1], isWriting)
    /\ UNCHANGED <<now, db, cur, saveStatus, view, inflight, issued>>
    /\ typedInSession' = FALSE
    /\ UNCHANGED timers

\* the New Scene button: createNewScene(title), up to its await
CreateNewScene(title) ==
    /\ IsOpen
    /\ Len(cur.scenes) < MaxScenes
    /\ CanIssue(1)
    /\ LET newScene == NewScene(now, title)
           updatedScenes == Append(cur.scenes, newScene)
           originalScenes == cur.scenes
       IN  /\ cur' = [cur EXCEPT !.scenes = updatedScenes]
           /\ saveStatus' = "saving"
           /\ LET a == setActiveSceneId(cur', newScene.id)
              IN  /\ activeSceneId' = a[1]
                  /\ editorContent' = a[2]
                  /\ armed' = Arm(a[1], isWriting)
           /\ issued' = issued + 1
           /\ inflight' = Append(inflight,
                 SceneOp("create", cur.id, updatedScenes, 0, originalScenes))
    /\ UNCHANGED <<now, db, view>>
    /\ typedInSession' = FALSE
    /\ UNCHANGED timers

\* the array onDragEnd hands to reorderScenes
ReorderedWithoutMoved(scenes, src, dst) == RemoveAt(scenes, src)

Reordered(scenes, src, dst) == InsertAt(RemoveAt(scenes, src), dst, scenes[src])

\* onDragEnd and reorderScenes(scenes), up to its await
DragEnd(src, dst) ==
    /\ IsOpen
    /\ src \in 1..Len(cur.scenes)
    /\ dst \in 1..Len(cur.scenes)
    /\ CanIssue(1)
    /\ LET scenes == Reordered(cur.scenes, src, dst)
       IN  /\ cur' = [cur EXCEPT !.scenes = scenes]
           /\ issued' = issued + 1
           /\ inflight' = Append(inflight, SceneOp("reorder", cur.id, scenes, 0, << >>))
    /\ saveStatus' = "saving"
    /\ armed' = Arm(activeSceneId, isWriting)
    /\ UNCHANGED <<now, db, activeSceneId, editorContent, view>>
    /\ UNCHANGED typedInSession
    /\ UNCHANGED timers

\* the scene list renameScene builds
Renamed(scenes, sceneId, newTitle) ==
    [i \in 1..Len(scenes) |->
        IF scenes[i].id = sceneId THEN [scenes[i] EXCEPT !.title = newTitle] ELSE scenes[i]]

\* handleRename and renameScene(sceneId, newTitle), up to its await
Rename(i, newTitle) ==
    /\ IsOpen
    /\ i \in 1..Len(cur.scenes)
    /\ newTitle # ""
    /\ CanIssue(1)
    /\ LET updatedScenes == Renamed(cur.scenes, cur.scenes[i].id, newTitle)
       IN  /\ cur' = [cur EXCEPT !.scenes = updatedScenes]
           /\ issued' = issued + 1
           /\ inflight' = Append(inflight, SceneOp("rename", cur.id, updatedScenes, 0, << >>))
    /\ saveStatus' = "saving"
    /\ armed' = Arm(activeSceneId, isWriting)
    /\ UNCHANGED <<now, db, activeSceneId, editorContent, view>>
    /\ UNCHANGED typedInSession
    /\ UNCHANGED timers

\* handleConfirmDelete and deleteScene(sceneId), up to its await
ConfirmDelete(i) ==
    /\ IsOpen
    /\ i \in 1..Len(cur.scenes)
    /\ Len(cur.scenes) > 1
    /\ CanIssue(1)
    /\ LET sceneId == cur.scenes[i].id
           updatedScenes == FilterOut(cur.scenes, sceneId)
           totalWords == TotalWordsOf(updatedScenes)
           a == IF activeSceneId = sceneId
                THEN setActiveSceneId(cur,
                        IF Len(updatedScenes) > 0 THEN updatedScenes[1].id ELSE NoScene)
                ELSE <<activeSceneId, editorContent>>
       IN  /\ activeSceneId' = a[1]
           /\ editorContent' = a[2]
           /\ cur' = [cur EXCEPT !.scenes = updatedScenes, !.totalWords = totalWords]
           /\ armed' = Arm(a[1], isWriting)
           /\ issued' = issued + 1
           /\ inflight' = Append(inflight,
                 SceneOp("delete", cur.id, updatedScenes, totalWords, << >>))
    /\ saveStatus' = "saving"
    /\ UNCHANGED <<now, db, view>>
    /\ typedInSession' = IF activeSceneId' # activeSceneId THEN FALSE ELSE typedInSession
    /\ UNCHANGED timers

\* the auto-save effect's timer fires
AutosaveFire ==
    /\ IsOpen
    /\ armed
    /\ LET i == SceneIndex(cur.scenes, activeSceneId)
       IN  IF i # 0 /\ cur.scenes[i].content # editorContent
           THEN /\ CanIssue(1)
                /\ LET updatedScenes == UpdatedScenes(cur.scenes, activeSceneId, editorContent)
                       totalWords == TotalWordsOf(updatedScenes)
                   IN  /\ cur' = [cur EXCEPT !.scenes = updatedScenes, !.totalWords = totalWords]
                       /\ issued' = issued + 1
                       /\ inflight' = Append(inflight,
                             Op("update", cur.id, updatedScenes, totalWords, << >>, 0, << >>,
                                "none", activeSceneId, editorContent, 0, 0))
                /\ armed' = Arm(activeSceneId, isWriting)
           ELSE /\ armed' = FALSE
                /\ UNCHANGED <<cur, inflight, issued>>
    /\ UNCHANGED <<now, db, activeSceneId, editorContent, saveStatus, view>>
    /\ UNCHANGED typedInSession
    /\ UNCHANGED timers

\* ------------------------------------------------------------- sessions
PendingEnds ==
    Cardinality({i \in 1..Len(inflight) :
                    inflight[i].kind = "update" /\ inflight[i].cont = "end"})

\* the Start Session button: handleStartSession
StartSession ==
    /\ IsOpen
    /\ ~isWriting
    /\ initialWordCount' = cur.totalWords
    /\ sessionStartTime' = now
    /\ isWriting' = TRUE
    /\ armed' = FALSE
    /\ UNCHANGED <<now, db, store, sessionTime, inflight, issued>>
    /\ typedInSession' = FALSE
    /\ UNCHANGED timers

\* the End Session button: handleEndSession, up to its first await
EndSession ==
    /\ IsOpen
    /\ isWriting
    /\ activeSceneId # NoScene
    /\ CanIssue(2)
    /\ Len(cur.sessions) + PendingEnds < MaxSessions
    /\ isWriting' = FALSE
    /\ armed' = Arm(activeSceneId, FALSE)
    /\ LET duration == Duration
           i == SceneIndex(cur.scenes, activeSceneId)
       IN  IF i = 0
           THEN \* updateSceneContent returns currentProject.totalWords at once
                /\ AddSessionCall(inflight, duration,
                                  WordsWritten(cur.totalWords, initialWordCount),
                                  activeSceneId, editorContent, TRUE)
                /\ issued' = issued + 2
           ELSE LET updatedScenes == UpdatedScenes(cur.scenes, activeSceneId, editorContent)
                    totalWords == TotalWordsOf(updatedScenes)
                IN  /\ cur' = [cur EXCEPT !.scenes = updatedScenes, !.totalWords = totalWords]
                    /\ issued' = issued + 2
                    /\ inflight' = Append(inflight,
                          Op("update", cur.id, updatedScenes, totalWords, << >>, 0, << >>,
                             "end", activeSceneId, editorContent, duration, initialWordCount))
                    /\ UNCHANGED saveStatus
    /\ UNCHANGED <<now, db, activeSceneId, editorContent, sessionTime,
                   sessionStartTime, initialWordCount>>
    /\ typedInSession' = FALSE
    /\ UNCHANGED timers

\* the sessions the statistics panel lists for the active scene
activeSceneSessions == {k \in 1..Len(cur.sessions) : cur.sessions[k].sceneId = activeSceneId}

\* the Revert button of a listed session, confirmed: handleRevert up to its await
Revert(k) ==
    /\ IsOpen
    /\ k \in activeSceneSessions
    /\ LET sceneId == cur.sessions[k].sceneId
           content == cur.sessions[k].content
           i == SceneIndex(cur.scenes, sceneId)
       IN  IF i = 0
           THEN \* updateSceneContent returns at once, then setActiveSceneId(sceneId)
                LET a == setActiveSceneId(cur, sceneId)
                IN  /\ a # <<activeSceneId, editorContent>>
                    /\ activeSceneId' = a[1]
                    /\ editorContent' = a[2]
                    /\ armed' = Arm(a[1], isWriting)
                    /\ UNCHANGED <<cur, inflight, issued>>
           ELSE /\ CanIssue(1)
                /\ editorContent' = content
                /\ LET updatedScenes == UpdatedScenes(cur.scenes, sceneId, content)
                       totalWords == TotalWordsOf(updatedScenes)
                   IN  /\ cur' = [cur EXCEPT !.scenes = updatedScenes, !.totalWords = totalWords]
                       /\ issued' = issued + 1
                       /\ inflight' = Append(inflight,
                             Op("update", cur.id, updatedScenes, totalWords, << >>, 0, << >>,
                                "revert", sceneId, content, 0, 0))
                /\ armed' = Arm(activeSceneId, isWriting)
                /\ UNCHANGED activeSceneId
    /\ UNCHANGED <<now, db, saveStatus, view>>
    /\ typedInSession' = FALSE
    /\ UNCHANGED timers

\* ------------------------------------------------- the debounced save
\* debounce: clearTimeout(timeoutId); timeoutId = setTimeout(() => func(...args), delay)
DebouncedKeepFirst(pending, sceneId, content) ==
    IF pending = NoPending THEN [sceneId |-> sceneId, content |-> content] ELSE pending

Debounced(pending, sceneId, content) == [sceneId |-> sceneId, content |-> content]

\* updateSceneContentDebounced(sceneId, content) for a scene of the open project
UpdateSceneContentDebounced(i, c) ==
    /\ IsOpen
    /\ i \in 1..Len(cur.scenes)
    /\ editorContent' = c
    /\ debounced' = Debounced(debounced, cur.scenes[i].id, c)
    /\ armed' = Arm(activeSceneId, isWriting)
    /\ typedInSession' = isWriting
    /\ UNCHANGED <<now, db, cur, activeSceneId, saveStatus, view, inflight, issued, idleTimers>>

\* the debounce delay elapses: debouncedUpdateSceneContent up to its await
DebouncedFire ==
    /\ debounced # NoPending
    /\ debounced' = NoPending
    /\ LET i == SceneIndex(cur.scenes, debounced.sceneId)
       IN  IF ~IsOpen \/ i = 0
           THEN \* updateSceneContent returns at once: 'saving', then 'saved'
                /\ idleTimers < MaxWrites
                /\ saveStatus' = "saved"
                /\ idleTimers' = idleTimers + 1
                /\ UNCHANGED <<cur, inflight, issued, armed>>
           ELSE /\ CanIssue(1)
                /\ saveStatus' = "saving"
                /\ LET updatedScenes == UpdatedScenes(cur.scenes, debounced.sceneId, debounced.content)
                       totalWords == TotalWordsOf(updatedScenes)
                   IN  /\ cur' = [cur EXCEPT !.scenes = updatedScenes, !.totalWords = totalWords]
                       /\ issued' = issued + 1
                       /\ inflight' = Append(inflight,
                             Op("update", cur.id, updatedScenes, totalWords, << >>, 0, << >>,
                                "debounced", debounced.sceneId, debounced.content, 0, 0))
                /\ armed' = Arm(activeSceneId, isWriting)
                /\ UNCHANGED idleTimers
    /\ UNCHANGED <<now, db, activeSceneId, editorContent, view, typedInSession>>

\* the 2-second timer set after a debounced save
IdleTimerFires ==
    /\ idleTimers > 0
    /\ idleTimers' = idleTimers - 1
    /\ saveStatus' = IF saveStatus = "saved" THEN "idle" ELSE saveStatus
    /\ UNCHANGED <<now, db, cur, activeSceneId, editorContent, view, armed, inflight,
                   issued, typedInSession, debounced>>

\* ------------------------------------------------- completions of writes
\* updateDoc rejects when the document does not exist
CanSucceed(op) == op.kind \in {"createProject", "deleteProject"} \/ db[op.pid].st = "live"

\* the document after the write of `op` has been applied
Persisted(op) ==
    CASE op.kind = "createProject" ->
            [st |-> "live", scenes |-> op.scenes, sessions |-> << >>,
             totalTime |-> 0, totalWords |-> 0]
      [] op.kind = "deleteProject" -> [NoDoc EXCEPT !.st = "deleted"]
      [] op.kind \in {"create", "reorder", "rename"} ->
            [db[op.pid] EXCEPT !.scenes = op.scenes]
      [] op.kind \in {"update", "delete"} ->
            [db[op.pid] EXCEPT !.scenes = op.scenes, !.totalWords = op.totalWords]
      [] op.kind = "addSession" ->
            [db[op.pid] EXCEPT !.sessions = op.sessions, !.totalTime = op.totalTime]

\* createNewScene, reorderScenes, renameScene, deleteScene, createProject,
\* deleteProject after their await: set({ saveStatus: 'saved' })
WriteSucceeds(i) ==
    /\ i \in 1..Len(inflight)
    /\ inflight[i].kind \in {"create", "reorder", "rename", "delete",
                             "createProject", "deleteProject"}
    /\ CanSucceed(inflight[i])
    /\ db' = [db EXCEPT ![inflight[i].pid] = Persisted(inflight[i])]
    /\ saveStatus' = "saved"
    /\ inflight' = RemoveAt(inflight, i)
    /\ UNCHANGED issued
    /\ UNCHANGED <<now, cur, activeSceneId, editorContent, view, armed>>
    /\ UNCHANGED typedInSession
    /\ UNCHANGED timers

\* updateSceneContent after its await, and what its caller does with the result
UpdateSucceeds(i) ==
    /\ i \in 1..Len(inflight)
    /\ inflight[i].kind = "update"
    /\ CanSucceed(inflight[i])
    /\ db' = [db EXCEPT ![inflight[i].pid] = Persisted(inflight[i])]
    /\ LET op == inflight[i]
           rest == RemoveAt(inflight, i)
       IN  CASE op.cont = "none" ->
                  /\ inflight' = rest
                  /\ UNCHANGED <<store, view, armed>>
             [] op.cont = "debounced" ->
                  \* debouncedUpdateSceneContent: setSaveStatus('saved'), setTimeout
                  /\ saveStatus' = "saved"
                  /\ inflight' = rest
                  /\ UNCHANGED <<cur, activeSceneId, editorContent, view, armed>>
             [] op.cont = "revert" ->
                  \* handleRevert: setActiveSceneId(sceneId)
                  LET a == setActiveSceneId(cur, op.sceneId)
                  IN  /\ activeSceneId' = a[1]
                      /\ editorContent' = a[2]
                      /\ armed' = IF IsOpen /\ a # <<activeSceneId, editorContent>>
                                  THEN Arm(a[1], isWriting) ELSE armed
                      /\ inflight' = rest
                      /\ UNCHANGED <<cur, saveStatus, view>>
             [] op.cont = "end" ->
                  \* handleEndSession: addSession({ duration, wordsWritten, ... })
                  IF IsOpen
                  THEN /\ AddSessionCall(rest, op.duration,
                                         WordsWritten(op.totalWords, op.initial),
                                         op.sceneId, op.content, op.mounted)
                       /\ armed' = Arm(activeSceneId, isWriting)
                       /\ UNCHANGED <<activeSceneId, editorContent, view>>
                  ELSE /\ inflight' = rest
                       /\ UNCHANGED <<store, view, armed>>
    /\ UNCHANGED <<now, issued>>
    /\ typedInSession' = IF editorContent' # editorContent \/ activeSceneId' # activeSceneId THEN FALSE ELSE typedInSession
    /\ idleTimers' = IF inflight[i].cont = "debounced" THEN idleTimers + 1 ELSE idleTimers
    /\ UNCHANGED debounced

\* addSession after its await; handleEndSession then resets the counter
AddSessionSucceeds(i) ==
    /\ i \in 1..Len(inflight)
    /\ inflight[i].kind = "addSession"
    /\ CanSucceed(inflight[i])
    /\ db' = [db EXCEPT ![inflight[i].pid] = Persisted(inflight[i])]
    /\ saveStatus' = "saved"
    /\ sessionTime' = IF inflight[i].mounted THEN 0 ELSE sessionTime
    /\ inflight' = RemoveAt(inflight, i)
    /\ UNCHANGED issued
    /\ UNCHANGED <<now, cur, activeSceneId, editorContent, isWriting,
                   sessionStartTime, initialWordCount, armed>>
    /\ UNCHANGED typedInSession
    /\ UNCHANGED timers

\* the catch block of createNewScene
CreateFails(i) ==
    /\ i \in 1..Len(inflight)
    /\ inflight[i].kind = "create"
    /\ cur' = IF IsOpen THEN [cur EXCEPT !.scenes = inflight[i].orig] ELSE cur
    /\ saveStatus' = "error"
    /\ armed' = IF IsOpen THEN Arm(activeSceneId, isWriting) ELSE armed
    /\ inflight' = RemoveAt(inflight, i)
    /\ UNCHANGED issued
    /\ UNCHANGED <<now, db, activeSceneId, editorContent, view>>
    /\ UNCHANGED typedInSession
    /\ UNCHANGED timers

\* updateSceneContent has no catch block: the rejection reaches its caller
UpdateFails(i) ==
    /\ i \in 1..Len(inflight)
    /\ inflight[i].kind = "update"
    /\ inflight' = RemoveAt(inflight, i)
    /\ UNCHANGED issued
    \* only debouncedUpdateSceneContent catches the rejection
    /\ saveStatus' = IF inflight[i].cont = "debounced" THEN "error" ELSE saveStatus
    /\ UNCHANGED <<now, db, cur, activeSceneId, editorContent, view, armed>>
    /\ UNCHANGED typedInSession
    /\ UNCHANGED timers

\* the catch blocks of reorderScenes, renameScene, deleteScene, addSession,
\* createProject and deleteProject
WriteFails(i) ==
    /\ i \in 1..Len(inflight)
    /\ inflight[i].kind \in {"reorder", "rename", "delete", "addSession",
                             "createProject", "deleteProject"}
    /\ saveStatus' = "error"
    /\ inflight' = RemoveAt(inflight, i)
    /\ UNCHANGED issued
    /\ UNCHANGED <<now, db, cur, activeSceneId, editorContent, view, armed>>
    /\ UNCHANGED typedInSession
    /\ UNCHANGED timers

\* ------------------------------------------------------------------- Next
\* the clock and the completions of scene writes
Environment ==
    \/ AdvanceClock
    \/ \E i \in 1..MaxInflight : WriteSucceeds(i)
    \/ \E i \in 1..MaxInflight : UpdateSucceeds(i)
    \/ \E i \in 1..MaxInflight : CreateFails(i)
    \/ \E i \in 1..MaxInflight : UpdateFails(i)

\* opening the project, typing, selecting a scene, auto-save
Editing ==
    \/ \E p \in ProjectIds : OpenProject(p)
    \/ \E c \in EditorTexts : Type(c)
    \/ \E i \in 1..MaxScenes : ClickScene(i)
    \/ AutosaveFire

\* the operations on the scene list
SceneList ==
    \/ \E t \in NewTitles : CreateNewScene(t)
    \/ \E src, dst \in 1..MaxScenes : DragEnd(src, dst)
    \/ \E i \in 1..MaxScenes, t \in RenameTitles : Rename(i, t)
    \/ \E i \in 1..MaxScenes : ConfirmDelete(i)

\* the session tracker and the snapshots
Sessions ==
    \/ TimerTick
    \/ StartSession
    \/ EndSession
    \/ \E k \in 1..MaxSessions : Revert(k)
    \/ \E i \in 1..MaxInflight : AddSessionSucceeds(i)

\* the dashboard's project operations
Dashboard ==
    \/ \E p \in ProjectIds : CreateProject(p)
    \/ \E p \in ProjectIds : DeleteProject(p)

\* The scene store: one visit of the project, editing and the scene list,
\* no writing session.
NextScenes ==
    \/ Environment \/ Editing \/ SceneList
    \/ \E i \in 1..MaxInflight : WriteFails(i)

SpecScenes == Init /\ [][NextScenes]_vars

\* The session tracker: one visit of the project, editing, new scenes and
\* writing sessions.
NextSession ==
    \/ Environment \/ Editing \/ Sessions
    \/ \E t \in NewTitles : CreateNewScene(t)
    \/ \E i \in 1..MaxInflight : WriteFails(i)

SpecSession == Init /\ [][NextSession]_vars

\* Navigation: the project is left and opened again while editing.
NextNavigate ==
    \/ Environment \/ Editing
    \/ Back
    \/ \E t \in NewTitles : CreateNewScene(t)

SpecNavigate == Init /\ [][NextNavigate]_vars

\* The history of sessions: one visit of the project with the scene list, the
\* sessions and the reverts; content reaches the store by the flush of
\* handleEndSession and by handleRevert.
NextHistory ==
    \/ Environment \/ SceneList \/ Sessions
    \/ \E p \in ProjectIds : OpenProject(p)
    \/ \E c \in EditorTexts : Type(c)
    \/ \E i \in 1..MaxScenes : ClickScene(i)
    \/ \E i \in 1..MaxInflight : WriteFails(i)

SpecHistory == Init /\ [][NextHistory]_vars

\* Two projects: a second project is created from the dashboard, and one
\* project is left for the other while writes and a session's flush are
\* still awaited.
NextProjects ==
    \/ Environment
    \/ \E p \in ProjectIds : CreateProject(p)
    \/ \E p \in ProjectIds : OpenProject(p)
    \/ Back
    \/ \E t \in NewTitles : CreateNewScene(t)
    \/ \E c \in EditorTexts : Type(c)
    \/ StartSession
    \/ EndSession
    \/ \E i \in 1..MaxInflight : AddSessionSucceeds(i)
    \/ \E i \in 1..MaxInflight : WriteFails(i)

SpecProjects == Init /\ [][NextProjects]_vars

\* the store's debounced save
DebouncedSave ==
    \/ \E i \in 1..MaxScenes, c \in EditorTexts : UpdateSceneContentDebounced(i, c)
    \/ DebouncedFire
    \/ IdleTimerFires

\* Saving after a burst: content is typed into the editor, or handed to
\* updateSceneContentDebounced for the scenes of one project, and saved when
\* the delay has elapsed.
NextDebounce ==
    \/ \E i \in 1..MaxInflight : WriteSucceeds(i)
    \/ \E i \in 1..MaxInflight : UpdateSucceeds(i)
    \/ \E i \in 1..MaxInflight : CreateFails(i)
    \/ \E i \in 1..MaxInflight : UpdateFails(i)
    \/ DebouncedSave
    \/ \E c \in EditorTexts : Type(c)
    \/ AutosaveFire
    \/ \E p \in ProjectIds : OpenProject(p)
    \/ \E t \in NewTitles : CreateNewScene(t)

SpecDebounce == Init /\ [][NextDebounce]_vars

\* Every action.  The claims are checked under the specifications above, each
\* of which takes a part of these actions.
Next ==
    \/ Environment \/ Editing \/ SceneList \/ Sessions \/ Back \/ Dashboard
    \/ DebouncedSave
    \/ \E i \in 1..MaxInflight : WriteFails(i)

Spec == Init /\ [][Next]_vars

\* ================================================================ claims
Last(seq) == seq[Len(seq)]

\* the active scene is in the project and the editor holds text that differs
\* from what the store has for it
Dirty ==
    /\ IsOpen
    /\ SceneIndex(cur.scenes, activeSceneId) # 0
    /\ cur.scenes[SceneIndex(cur.scenes, activeSceneId)].content # editorContent

\* C1: while a project is open, totalWords is the sum of the scenes' wordCount.
TotalWordsIsSum == IsOpen => cur.totalWords = SumWordCount(cur.scenes)

\* C2: every recorded session has wordsWritten >= 0, also when the total at
\* the end of the session is below the total captured at its start.
WordsWrittenNotNegative ==
    \A k \in 1..Len(cur.sessions) : cur.sessions[k].wordsWritten >= 0

\* C3: the duration handleEndSession hands on is the clock time elapsed since
\* handleStartSession, whatever ticks fired in between.
DurationIsElapsed ==
    [][(IsOpen /\ isWriting /\ IsOpen' /\ ~isWriting')
          => Last(inflight').duration = now - sessionStartTime]_vars

\* C4: when the write of an auto-save's updateSceneContent fails and nothing
\* else has touched the project since the call, the scene no longer holds the
\* content of the failed update (auto-save only writes content that differs
\* from what the scene had) and totalWords is again the sum of the wordCounts.
FailedUpdateIsRolledBack ==
    [][\A i \in 1..MaxInflight :
          (/\ UpdateFails(i)
           /\ inflight[i].cont = "none"
           /\ Len(inflight) = 1
           /\ cur.scenes = inflight[i].scenes
           /\ cur.totalWords = inflight[i].totalWords)
          => LET j == SceneIndex(cur'.scenes, inflight[i].sceneId)
             IN  /\ j # 0
                 /\ cur'.scenes[j].content # inflight[i].content
                 /\ cur'.totalWords = SumWordCount(cur'.scenes)]_vars

\* C5: a revert to a session whose scene is not in the project changes
\* nothing and issues no write.
RevertOfMissingSceneChangesNothing ==
    [][\A k \in 1..MaxSessions :
          (Revert(k) /\ SceneIndex(cur.scenes, cur.sessions[k].sceneId) = 0)
          => UNCHANGED <<cur, activeSceneId, editorContent, inflight>>]_vars


\* C6: a confirmed revert to a session whose scene is in the project leaves
\* that scene with the snapshot's content and its word count, totalWords the
\* sum of the wordCounts, the scene active and the editor holding the
\* snapshot's content; when its write has succeeded the scene is made active.
RevertRestoresSnapshot ==
    [][/\ \A k \in 1..MaxSessions :
            (Revert(k) /\ SceneIndex(cur.scenes, cur.sessions[k].sceneId) # 0)
            => LET c == cur.sessions[k].content
                   j == SceneIndex(cur'.scenes, cur.sessions[k].sceneId)
               IN  /\ j # 0
                   /\ cur'.scenes[j].content = c
                   /\ cur'.scenes[j].wordCount = countWords(c)
                   /\ cur'.totalWords = SumWordCount(cur'.scenes)
                   /\ activeSceneId' = cur.sessions[k].sceneId
                   /\ editorContent' = c
       /\ \A i \in 1..MaxInflight :
            (UpdateSucceeds(i) /\ inflight[i].cont = "revert")
            => /\ activeSceneId' = inflight[i].sceneId
               /\ LET j == SceneIndex(cur.scenes, inflight[i].sceneId)
                  IN  j # 0 => editorContent' = cur.scenes[j].content]_vars

\* a revert is under way on a scene that had been saved with other content
\* after the session ended
RevertAfterLaterEdit ==
    \E i \in 1..Len(inflight) :
        /\ inflight[i].cont = "revert"
        /\ LET j == SceneIndex(cur.scenes, inflight[i].sceneId)
               d == SceneIndex(db[cur.id].scenes, inflight[i].sceneId)
           IN  /\ j # 0 /\ d # 0
               /\ cur.scenes[j].content = inflight[i].content
               /\ cur.scenes[j].wordCount > 0
               /\ db[cur.id].scenes[d].content # inflight[i].content
               /\ db[cur.id].scenes[d].content # EmptyContent

\* C7: while the project stays open its sessions only change by addSession
\* appending one session after the existing ones, which stay as they are.
SessionsAppendOnly ==
    [][(IsOpen /\ IsOpen' /\ cur'.sessions # cur.sessions)
          => /\ Len(cur'.sessions) = Len(cur.sessions) + 1
             /\ SubSeq(cur'.sessions, 1, Len(cur.sessions)) = cur.sessions
             /\ Len(inflight') > 0
             /\ Last(inflight').kind = "addSession"
             /\ Last(inflight').sessions = cur'.sessions]_vars

\* a scene was deleted after a session took its snapshot, and the session is
\* still in the history
SessionOutlivesItsScene ==
    /\ IsOpen
    /\ \E k \in 1..Len(cur.sessions), i \in 1..Len(inflight) :
          /\ inflight[i].kind = "delete"
          /\ SceneIndex(inflight[i].scenes, cur.sessions[k].sceneId) = 0
          /\ SceneIndex(cur.scenes, cur.sessions[k].sceneId) = 0
          /\ cur.sessions[k].content # EmptyContent

\* C8: while a project is open, totalTime is the sum of the sessions' durations.
TotalTimeIsSum == IsOpen => cur.totalTime = SumDuration(cur.sessions)

\* two sessions of non-zero duration are recorded, and a write of addSession failed
TwoSessionsOneNotPersisted ==
    /\ IsOpen
    /\ Len(cur.sessions) = 2
    /\ cur.sessions[1].duration > 0
    /\ cur.sessions[2].duration > 0
    /\ inflight = << >>
    /\ Len(db[cur.id].sessions) < 2

\* C9: during a writing session a change of the active scene leaves the text
\* typed into the scene that was active in that scene's stored content.
SwitchKeepsSessionWords ==
    [][(Dirty /\ isWriting /\ typedInSession /\ IsOpen' /\ activeSceneId' # activeSceneId)
          => LET j == SceneIndex(cur'.scenes, activeSceneId)
             IN  j # 0 /\ cur'.scenes[j].content = editorContent]_vars

\* C10: an edit whose auto-save timer is pending when the active scene
\* changes or the project is left is handed to updateSceneContent for the
\* scene it was typed into.
PendingEditIsWritten ==
    [][(Dirty /\ armed /\ (activeSceneId' # activeSceneId \/ ~IsOpen'))
          => \E i \in 1..Len(inflight') :
                /\ inflight'[i].kind = "update"
                /\ inflight'[i].pid = cur.id
                /\ inflight'[i].sceneId = activeSceneId
                /\ inflight'[i].content = editorContent]_vars

\* C11: the completion of an operation started on a project that has since
\* been left for another one neither changes the open project nor issues a
\* write to its document.
CompletionStaysInItsProject ==
    [][\A i \in 1..MaxInflight :
          (/\ CreateFails(i) \/ UpdateSucceeds(i)
           /\ IsOpen
           /\ inflight[i].pid # cur.id)
          => /\ cur' = cur
             /\ \A j \in 1..Len(inflight') :
                   inflight'[j].pid = cur.id
                   => \E k \in 1..Len(inflight) : inflight[k] = inflight'[j]]_vars

\* C12: while a project is open its scene list is not empty.
ScenesNeverEmpty == IsOpen => Len(cur.scenes) >= 1

\* C13: deleteScene on a list of two or more scenes removes that one scene and
\* keeps the others in order, makes totalWords the sum of the remaining
\* wordCounts, and moves the active scene to the first remaining scene, with
\* its content in the editor, exactly when the deleted scene was active.
DeleteRemovesOneScene ==
    [][\A i \in 1..MaxScenes :
          (ConfirmDelete(i) /\ Len(cur.scenes) >= 2)
          => /\ cur'.scenes = RemoveAt(cur.scenes, i)
             /\ cur'.totalWords = SumWordCount(cur'.scenes)
             /\ IF activeSceneId = cur.scenes[i].id
                THEN /\ activeSceneId' = cur'.scenes[1].id
                     /\ editorContent' = cur'.scenes[1].content
                ELSE UNCHANGED <<activeSceneId, editorContent>>]_vars

\* C15: no two scenes of the open project have the same id.
SceneIdsUnique ==
    \A i, j \in 1..Len(cur.scenes) : i # j => cur.scenes[i].id # cur.scenes[j].id

\* C16: createNewScene appends one empty scene after the existing ones, which
\* stay as they are, leaves totalWords alone and makes the new scene active
\* with an empty editor.
CreateAppendsEmptyActiveScene ==
    [][\A t \in NewTitles :
          CreateNewScene(t)
          => /\ Len(cur'.scenes) = Len(cur.scenes) + 1
             /\ SubSeq(cur'.scenes, 1, Len(cur.scenes)) = cur.scenes
             /\ Last(cur'.scenes).content = EmptyContent
             /\ Last(cur'.scenes).wordCount = 0
             /\ Last(cur'.scenes).title = t
             /\ cur'.totalWords = cur.totalWords
             /\ activeSceneId' = Last(cur'.scenes).id
             /\ SceneIndex(cur'.scenes, activeSceneId') = Len(cur'.scenes)
             /\ editorContent' = EmptyContent]_vars

\* b holds the elements of a, each as often as a does
IsPermutation(a, b) ==
    /\ Len(a) = Len(b)
    /\ \E f \in [1..Len(a) -> 1..Len(a)] :
          /\ \A i, j \in 1..Len(a) : i # j => f[i] # f[j]
          /\ \A i \in 1..Len(a) : b[i] = a[f[i]]

\* C14: a drag-and-drop reorder leaves the project with the same scenes, each
\* with its id, title, content and wordCount, and changes neither totalWords
\* nor the active scene nor the editor, also while other writes are awaited.
ReorderKeepsScenes ==
    [][\A src, dst \in 1..MaxScenes :
          DragEnd(src, dst)
          => /\ IsPermutation(cur.scenes, cur'.scenes)
             /\ cur'.totalWords = cur.totalWords
             /\ cur'.sessions = cur.sessions
             /\ UNCHANGED <<activeSceneId, editorContent>>]_vars

\* the first scene of the project has been dragged behind a scene that holds
\* words, while another write was still awaited
ReorderedWhileWriting ==
    /\ IsOpen
    /\ Len(inflight) = 2
    /\ inflight[1].kind # "reorder"
    /\ inflight[2].kind = "reorder"
    /\ cur.scenes = inflight[2].scenes
    /\ Len(cur.scenes) = 2
    /\ cur.scenes[1].id # 1
    /\ cur.scenes[2].id = 1
    /\ cur.scenes[1].wordCount > 0

\* a title that is empty after trimming
IsBlankTitle(t) == t \in {"", " "}

\* C17: a rename to a title that is blank after trimming changes no scene and
\* issues no write.
BlankRenameIsNoOp ==
    [][\A i \in 1..MaxScenes, t \in RenameTitles :
          (Rename(i, t) /\ IsBlankTitle(t))
          => UNCHANGED <<cur, inflight>>]_vars

\* C18: a writing session can always be ended: handleEndSession is not asked
\* to end one while there is no active scene, where it returns at once.
WritingCanBeEnded == (IsOpen /\ isWriting) => activeSceneId # NoScene

\* C19: the failure of any write sets saveStatus to 'error'.
FailureSetsErrorStatus ==
    [][\A i \in 1..MaxInflight :
          (CreateFails(i) \/ UpdateFails(i) \/ WriteFails(i))
          => saveStatus' = "error"]_vars

\* C20: when the write of a deleteScene or of an addSession fails, and nothing
\* else has touched the project since the call, the scene list, respectively
\* the session list, is no longer the one the operation had put in place.
FailedWriteIsRolledBack ==
    [][\A i \in 1..MaxInflight :
          (/\ WriteFails(i)
           /\ Len(inflight) = 1
           /\ IsOpen
           /\ inflight[i].pid = cur.id)
          => /\ (inflight[i].kind = "delete" /\ cur.scenes = inflight[i].scenes)
                  => cur'.scenes # inflight[i].scenes
             /\ (inflight[i].kind = "addSession" /\ cur.sessions = inflight[i].sessions)
                  => cur'.sessions # inflight[i].sessions]_vars

\* C21: an updateSceneContent call for a scene that is not in the project is
\* rejected to its caller: handleEndSession, whose flush hit a missing scene,
\* records no session and issues no write.
RejectedUpdateStopsCaller ==
    [][(EndSession /\ SceneIndex(cur.scenes, activeSceneId) = 0)
          => /\ cur'.sessions = cur.sessions
             /\ inflight' = inflight]_vars

\* C22: no updateSceneContent write is issued for content the scene already
\* holds.
UnchangedContentIsNotWritten ==
    [][(/\ IsOpen
        /\ Len(inflight') = Len(inflight) + 1
        /\ Last(inflight').kind = "update")
          => LET j == SceneIndex(cur.scenes, Last(inflight').sceneId)
             IN  j # 0 => cur.scenes[j].content # Last(inflight').content]_vars

EndPendingMeansWriting ==
    \A i \in 1..Len(inflight) :
        (inflight[i].kind = "update" /\ inflight[i].cont = "end" /\ inflight[i].mounted)
        => isWriting

\* the sessions recorded and the ends whose flush is still awaited
Pipeline == Len(cur.sessions) + PendingEnds

\* C25: while the project stays open, each handleEndSession adds one session
\* to those recorded or under way, the success of its flush turns it into
\* exactly one recorded session after the existing ones, and nothing but the
\* failure of a flush takes one away.
SessionRecordedOnce ==
    [][(IsOpen /\ IsOpen')
          => /\ EndSession => Pipeline' = Pipeline + 1
             /\ \A i \in 1..MaxInflight :
                   (UpdateSucceeds(i) /\ inflight[i].cont = "end")
                   => /\ Len(cur'.sessions) = Len(cur.sessions) + 1
                      /\ SubSeq(cur'.sessions, 1, Len(cur.sessions)) = cur.sessions
                      /\ PendingEnds' = PendingEnds - 1
             /\ (~EndSession
                 /\ ~\E i \in 1..MaxInflight : UpdateFails(i) /\ inflight[i].cont = "end")
                   => Pipeline' = Pipeline]_vars

\* two sessions are recorded and the writes of both are still awaited: the
\* second session was started and ended while the first end was in flight
TwoEndsInFlight ==
    /\ IsOpen
    /\ Len(cur.sessions) = 2
    /\ Len(inflight) = 2
    /\ inflight[1].kind = "addSession"
    /\ inflight[2].kind = "addSession"

\* C26: when the write of createNewScene fails, the project keeps the scenes
\* it has at that moment, as they are and in their order, less the new scene.
RollbackKeepsNewerChanges ==
    [][\A i \in 1..MaxInflight :
          (CreateFails(i) /\ IsOpen /\ inflight[i].pid = cur.id)
          => cur'.scenes = FilterOut(cur.scenes, Last(inflight[i].scenes).id)]_vars

\* C27: while a session is being written no auto-save timer is pending and
\* none fires; handleStartSession leaves none pending.
AutosaveSuspendedWhileWriting ==
    [][/\ (IsOpen' /\ isWriting') => ~armed'
       /\ AutosaveFire => ~isWriting
       /\ StartSession => ~armed']_vars

\* a session is being written over text that was typed, and not yet saved,
\* before it started
StartedOverUnsavedText ==
    /\ isWriting
    /\ Dirty
    /\ ~typedInSession
    /\ ~armed
    /\ editorContent # EmptyContent

OtherSceneKeepsPendingSave ==
    [][\A i \in 1..MaxScenes, c \in EditorTexts :
          (/\ UpdateSceneContentDebounced(i, c)
           /\ debounced # NoPending
           /\ debounced.sceneId # cur.scenes[i].id)
          => \/ debounced' = debounced
             \/ \E k \in 1..Len(inflight') :
                   /\ inflight'[k].kind = "update"
                   /\ inflight'[k].sceneId = debounced.sceneId
                   /\ inflight'[k].content = debounced.content]_vars

\* C30: the update writes of one scene are applied in the order of their
\* calls: when one is applied, none issued before it for that scene is still
\* awaited.
UpdatesAppliedInIssueOrder ==
    [][\A i \in 1..MaxInflight :
          UpdateSucceeds(i)
          => \A j \in 1..(i - 1) :
                ~(/\ inflight[j].kind = "update"
                  /\ inflight[j].pid = inflight[i].pid
                  /\ inflight[j].sceneId = inflight[i].sceneId)]_vars

\* C31: activeSceneId is null or the id of a scene of the open project.
ActiveSceneIsInProject ==
    \/ activeSceneId = NoScene
    \/ IsOpen /\ SceneIndex(cur.scenes, activeSceneId) # 0

\* C32: when saveStatus is 'saved' and no write is awaited, the document of
\* the open project agrees with the project in memory on scenes, totalWords,
\* sessions and totalTime.
SavedMeansPersisted ==
    (IsOpen /\ saveStatus = "saved" /\ inflight = << >>)
    => /\ db[cur.id].scenes = cur.scenes
       /\ db[cur.id].totalWords = cur.totalWords
       /\ db[cur.id].sessions = cur.sessions
       /\ db[cur.id].totalTime = cur.totalTime

\* C33: in every project document totalWords is the sum of the wordCounts of
\* its scenes.
PersistedTotalWordsIsSum ==
    \A p \in ProjectIds :
        db[p].st = "live" => db[p].totalWords = SumWordCount(db[p].scenes)

\* C34: the initialWordCount that handleStartSession captures is the total
\* of the project with the editor's content counted for the active scene.
InitialCountsEditorBuffer ==
    [][(StartSession /\ SceneIndex(cur.scenes, activeSceneId) # 0)
          => initialWordCount' =
                SumWordCount(UpdatedScenes(cur.scenes, activeSceneId, editorContent))]_vars

====
